---- MODULE Spec2Model ----
(***************************************************************************)
(* Metal: k-mer hash index of CpG windows (RefGenome) and the read         *)
(* matching engine (ReadQueue).                                            *)
(*                                                                         *)
(* Conventions.  The C++ code indexes from 0, TLA+ sequences from 1:       *)
(* At(s, i) is s[i] of the code.  An unsigned value is held as the signed  *)
(* integer with the same bit pattern (two's complement), so that a         *)
(* subtraction that wraps yields a negative number here, which ULt orders  *)
(* above every non-negative one, exactly as the wrapped value 2^w - x is   *)
(* ordered by the machine.                                                 *)
(***************************************************************************)
EXTENDS Integers, Sequences, FiniteSets, TLC

(***************************************************************************)
(* Program constants (MyConst, CONST.h), scaled to model size.             *)
(***************************************************************************)
KMERLEN == 2
MISCOUNT == 1
CORENUM == 2
KMERCUTOFF == 2
HTABSIZE == 4
READLEN == 4

(***************************************************************************)
(* Bounds of the model.                                                    *)
(***************************************************************************)
GenLen == 6
MaxReadLen == 5

Bases == {"A", "C", "G", "T"}

At(s, i) == s[i + 1]

Max(a, b) == IF a >= b THEN a ELSE b
Min(a, b) == IF a <= b THEN a ELSE b

\* unsigned comparison of two bit patterns held as signed integers
ULt(a, b) == IF (a < 0) = (b < 0) THEN a < b ELSE b < 0
UGe(a, b) == ~ULt(a, b)

(***************************************************************************)
(* Nucleotide codec (BitFun).  Encoding A 00, C 01, G 10, T 11.            *)
(***************************************************************************)
getBitRepr(c) ==
    CASE c = "A" -> 0
      [] c = "C" -> 1
      [] c = "G" -> 2
      [] c = "T" -> 3
      [] OTHER -> 0

\* code of the complementary base
getBitReprRev(c) ==
    CASE c = "A" -> 3
      [] c = "C" -> 2
      [] c = "G" -> 1
      [] c = "T" -> 0
      [] OTHER -> 0

\* mask of the significant bits of a k-mer: 0xff..ff >> (64 - 2*KMERLEN)
RECURSIVE Pow(_, _)
Pow(b, e) == IF e = 0 THEN 1 ELSE b * Pow(b, e - 1)

signiBits == Pow(4, KMERLEN) - 1

RECURSIVE BitAnd(_, _)
BitAnd(a, b) ==
    IF a = 0 \/ b = 0 THEN 0
    ELSE 2 * BitAnd(a \div 2, b \div 2) + (IF a % 2 = 1 /\ b % 2 = 1 THEN 1 ELSE 0)

RECURSIVE BitXor(_, _)
BitXor(a, b) ==
    IF a = 0 THEN b
    ELSE IF b = 0 THEN a
    ELSE 2 * BitXor(a \div 2, b \div 2) + (IF a % 2 = b % 2 THEN 0 ELSE 1)

\* comparison mask of a reference k-mer: every base of a full k-mer is
\* compared on both of its bits
getMask(refKmerBit) == signiBits

(***************************************************************************)
(* Kmer encoding (KMER): meta-CpG index, start flag, offset in the window. *)
(***************************************************************************)
OffRange == 8

constructKmer(isStart, metacpg, metaOff) ==
    metacpg * (2 * OffRange) + (IF isStart THEN OffRange ELSE 0) + metaOff

getMetaCpG(k) == k \div (2 * OffRange)
isStartCpG(k) == (k \div OffRange) % 2 = 1
getOffset(k) == k % OffRange

(***************************************************************************)
(* Packed genome (DnaBitStr): 2 bits per base.                             *)
(***************************************************************************)
generateBitStrings(genomeSeq) ==
    [c \in 1..Len(genomeSeq) |->
        [i \in 1..Len(genomeSeq[c]) |-> getBitRepr(genomeSeq[c][i])]]

RECURSIVE packBits(_, _, _)
packBits(bits, n, acc) ==
    IF n > Len(bits) THEN acc ELSE packBits(bits, n + 1, acc * 4 + bits[n])

\* the k-mer starting at position pos, forward strand
getSeqKmer(bitStr, pos) ==
    packBits([j \in 1..KMERLEN |-> At(bitStr, pos + j - 1)], 1, 0)

\* the reverse complement of the k-mer starting at position pos
getSeqKmerRev(bitStr, pos) ==
    packBits([j \in 1..KMERLEN |-> 3 - At(bitStr, pos + KMERLEN - j)], 1, 0)

(***************************************************************************)
(* Rolling hash over the reduced alphabet {A, G, T}: C is hashed as T.     *)
(***************************************************************************)
reducedCode(code) == CASE code = 0 -> 0 [] code = 2 -> 1 [] OTHER -> 2

RECURSIVE hashDigits(_, _, _)
hashDigits(codes, n, acc) ==
    IF n > Len(codes) THEN acc
    ELSE hashDigits(codes, n + 1, acc * 3 + reducedCode(codes[n]))

\* hash of the k-mer given by its 2-bit codes
ntHash(codes) == hashDigits(codes, 1, 0) % HTABSIZE

fwdCodes(bitStr, pos) == [j \in 1..KMERLEN |-> At(bitStr, pos + j - 1)]
revCodes(bitStr, pos) == [j \in 1..KMERLEN |-> 3 - At(bitStr, pos + KMERLEN - j)]

(***************************************************************************)
(* State.                                                                  *)
(***************************************************************************)
VARIABLES
    ref,        \* the reference genome and its index (RefGenome)
    phase,      \* how far the construction of ref has come
    counts,     \* ReadQueue::counts, one counter array per thread
    r,          \* the read handed to the matching steps (r.seq)
    seedsK,     \* its seed lists, one per k-mer offset: Kmer encodings
    seedsS,     \* ... and their strand flags
    lastOp,     \* the matching step that ran last
    preK,       \* seedsK before that step
    preS,       \* seedsS before that step
    fault,      \* that step indexed outside an object
    aborted,    \* the process was terminated by such an access
    readBuffer, \* the batch of reads matchReads works on
    numThreads, \* the size of the worker pool of the parallel loop
    taken,      \* the reads of the batch handed to a worker so far
    worker,     \* per thread: position in the loop body and its locals
    results,    \* per read: the seed lists left for both orientations
    touched     \* per counter array: the threads that have accessed it

idxVars == <<ref, phase>>
matchVars == <<r, seedsK, seedsS, lastOp, preK, preS, fault, aborted>>
poolVars == <<readBuffer, numThreads, taken, worker, results, touched>>
vars == <<ref, phase, counts, r, seedsK, seedsS, lastOp, preK, preS, fault, aborted,
          readBuffer, numThreads, taken, worker, results, touched>>

noCounts == [t \in 0..(CORENUM - 1) |-> << >>]

noMatch ==
    /\ r = << >> /\ seedsK = << >> /\ seedsS = << >>
    /\ lastOp = "none" /\ preK = << >> /\ preS = << >>
    /\ fault = FALSE /\ aborted = FALSE

noPool ==
    /\ readBuffer = << >>
    /\ numThreads = 0
    /\ taken = {}
    /\ worker = << >>
    /\ results = << >>
    /\ touched = [c \in 0..(CORENUM - 1) |-> {}]

(***************************************************************************)
(* CpG catalogue of a sequence: the input of the constructor.  A CpG with  *)
(* READLEN - 2 bases of upstream context goes to cpgTab with the start of  *)
(* its window, one nearer to the start of the sequence to cpgStartTab with *)
(* its own position.                                                       *)
(***************************************************************************)
RECURSIVE cpgScan(_, _, _, _, _)
cpgScan(seq, chrom, p, wantStart, acc) ==
    IF p + 1 >= Len(seq) THEN acc
    ELSE IF At(seq, p) = "C" /\ At(seq, p + 1) = "G" /\ ((p < READLEN - 2) = wantStart)
         THEN cpgScan(seq, chrom, p + 1, wantStart,
                      Append(acc, [chrom |-> chrom,
                                   pos |-> IF wantStart THEN p ELSE p - READLEN + 2]))
         ELSE cpgScan(seq, chrom, p + 1, wantStart, acc)

cpgCatalogue(genSeq, wantStart) == cpgScan(genSeq[1], 0, 0, wantStart, << >>)

(***************************************************************************)
(* RefGenome::generateMetaCpGs: consecutive CpGs of one chromosome that    *)
(* lie within one read length of the first one share a meta CpG.           *)
(***************************************************************************)
RECURSIVE metaScan(_, _, _)
metaScan(cpgs, i, acc) ==
    IF i >= Len(cpgs) THEN acc
    ELSE LET n == Len(acc)
             joins == /\ n > 0
                      /\ At(cpgs, acc[n].start).chrom = At(cpgs, i).chrom
                      /\ At(cpgs, i).pos - At(cpgs, acc[n].start).pos < READLEN
         IN IF joins
            THEN metaScan(cpgs, i + 1, [acc EXCEPT ![n].end = i])
            ELSE metaScan(cpgs, i + 1, Append(acc, [start |-> i, end |-> i]))

metaCpGsOf(cpgs) == metaScan(cpgs, 0, << >>)

(***************************************************************************)
(* The k-mers of one meta CpG, in hashing order (ntHashFirst, ntHashChunk, *)
(* ntHashLast): for each CpG of the meta CpG the k-mers inside its window  *)
(* that were not hashed for an earlier CpG (lastPos), forward strand and   *)
(* reverse complement.                                                     *)
(***************************************************************************)
RECURSIVE chunkPositions(_, _, _, _, _, _, _)
chunkPositions(cpgs, chromLen, isStart, ci, last, lastPos, acc) ==
    IF ci > last THEN acc
    ELSE LET from == IF isStart THEN lastPos ELSE Max(lastPos, At(cpgs, ci).pos)
             to == Min(At(cpgs, ci).pos + READLEN - 1, chromLen - 1) - KMERLEN + 1
             new == [j \in 1..Max(to - from + 1, 0) |-> from + j - 1]
         IN chunkPositions(cpgs, chromLen, isStart, ci + 1, last,
                           Max(lastPos, to + 1), acc \o new)

RECURSIVE hashEntries(_, _, _, _, _, _)
hashEntries(bitStr, positions, n, isStart, metacpg, base) ==
    IF n > Len(positions) THEN << >>
    ELSE LET q == positions[n]
             k == constructKmer(isStart, metacpg, q - base)
         IN << [hash |-> ntHash(fwdCodes(bitStr, q)), kmer |-> k, strand |-> TRUE],
               [hash |-> ntHash(revCodes(bitStr, q)), kmer |-> k, strand |-> FALSE] >>
            \o hashEntries(bitStr, positions, n + 1, isStart, metacpg, base)

ntHashMeta(rf, isStart, metacpg) ==
    LET cpgs == IF isStart THEN rf.cpgStartTable ELSE rf.cpgTable
        meta == At(IF isStart THEN rf.metaStartCpGs ELSE rf.metaCpGs, metacpg)
        chrom == At(cpgs, meta.start).chrom
        base == IF isStart THEN 0 ELSE At(cpgs, meta.start).pos
        positions == chunkPositions(cpgs, Len(At(rf.genomeBit, chrom)), isStart,
                                    meta.start, meta.end, 0, << >>)
    IN hashEntries(At(rf.genomeBit, chrom), positions, 1, isStart, metacpg, base)

RECURSIVE ntHashAll(_, _, _)
ntHashAll(rf, isStart, metacpg) ==
    IF metacpg >= Len(IF isStart THEN rf.metaStartCpGs ELSE rf.metaCpGs) THEN << >>
    ELSE ntHashMeta(rf, isStart, metacpg) \o ntHashAll(rf, isStart, metacpg + 1)

\* every k-mer to be hashed, start meta CpGs first
allKmers(rf) == ntHashAll(rf, TRUE, 0) \o ntHashAll(rf, FALSE, 0)

(***************************************************************************)
(* RefGenome::estimateTablesizes: count the k-mers of each hash value;     *)
(* tabIndex[h] becomes the end of the slice of h, the last cell the total. *)
(***************************************************************************)
tableSizes(rf) ==
    LET es == allKmers(rf)
        upTo(h) == Cardinality({n \in 1..Len(es) : es[n].hash <= h})
    IN [rf EXCEPT !.tabIndex = [i \in 1..(HTABSIZE + 1) |-> upTo(Min(i - 1, HTABSIZE - 1))],
                  !.kmerTable = [n \in 1..Len(es) |-> 0],
                  !.strandTable = [n \in 1..Len(es) |-> FALSE]]

(***************************************************************************)
(* RefGenome::generateHashes: place each k-mer below the ones placed       *)
(* before it in the slice of its hash value.                               *)
(***************************************************************************)
RECURSIVE placeKmers(_, _, _)
placeKmers(rf, es, n) ==
    IF n > Len(es) THEN rf
    ELSE LET h == es[n].hash
             cell == At(rf.tabIndex, h) - 1
         IN placeKmers([rf EXCEPT !.tabIndex[h + 1] = cell,
                                  !.kmerTable[cell + 1] = es[n].kmer,
                                  !.strandTable[cell + 1] = es[n].strand],
                       es, n + 1)

hashTable(rf) == placeKmers(rf, allKmers(rf), 1)

(***************************************************************************)
(* RefGenome::reproduceKmerSeq: the bits of the k-mer an entry stands for. *)
(***************************************************************************)
reproduceKmerSeq(rf, k, sFlag) ==
    LET cpgInd == IF isStartCpG(k) THEN At(rf.metaStartCpGs, getMetaCpG(k)).start
                  ELSE At(rf.metaCpGs, getMetaCpG(k)).start
        chrom == IF isStartCpG(k) THEN At(rf.cpgStartTable, cpgInd).chrom
                 ELSE At(rf.cpgTable, cpgInd).chrom
        pos == IF isStartCpG(k) THEN 0 ELSE At(rf.cpgTable, cpgInd).pos
    IN IF sFlag THEN getSeqKmer(At(rf.genomeBit, chrom), pos + getOffset(k))
       ELSE getSeqKmerRev(At(rf.genomeBit, chrom), pos + getOffset(k))

(***************************************************************************)
(* Rewriting the table with the entries whose index is in keep, slice by   *)
(* slice: tabIndex[h] is the number of entries written before slice h.     *)
(***************************************************************************)
RECURSIVE keptOfSlice(_, _, _, _, _)
keptOfSlice(rf, keep, h, i, acc) ==
    IF i >= At(rf.tabIndex, h + 1) THEN acc
    ELSE keptOfSlice(rf, keep, h, i + 1, IF i \in keep THEN Append(acc, i) ELSE acc)

RECURSIVE rewriteSlices(_, _, _, _, _)
rewriteSlices(rf, keep, h, tab, kept) ==
    IF h >= HTABSIZE
    THEN [rf EXCEPT !.tabIndex = Append(tab, Len(kept)),
                    !.kmerTable = [n \in 1..Len(kept) |-> At(rf.kmerTable, kept[n])],
                    !.strandTable = [n \in 1..Len(kept) |-> At(rf.strandTable, kept[n])]]
    ELSE rewriteSlices(rf, keep, h + 1, Append(tab, Len(kept)),
                       kept \o keptOfSlice(rf, keep, h, At(rf.tabIndex, h), << >>))

(***************************************************************************)
(* RefGenome::blacklist: how often each k-mer sequence occurs in a slice.  *)
(***************************************************************************)
\* the entries of the table, each with the slice it is in
sliceEntries(rf) ==
    {e \in (0..(HTABSIZE - 1)) \X (0..(Len(rf.kmerTable) - 1)) :
        At(rf.tabIndex, e[1]) <= e[2] /\ e[2] < At(rf.tabIndex, e[1] + 1)}

blacklist(rf, KSliceStart, KSliceEnd) ==
    [v \in 0..signiBits |->
        Cardinality({i \in KSliceStart..(KSliceEnd - 1) :
            reproduceKmerSeq(rf, At(rf.kmerTable, i), At(rf.strandTable, i)) = v})]

(***************************************************************************)
(* RefGenome::filterHashTable: drop the k-mers that occur more than        *)
(* KMERCUTOFF times in their slice and remember them in filteredKmers.     *)
(***************************************************************************)
tooFrequent(rf, h, i) ==
    blacklist(rf, At(rf.tabIndex, h), At(rf.tabIndex, h + 1))
        [reproduceKmerSeq(rf, At(rf.kmerTable, i), At(rf.strandTable, i))] > KMERCUTOFF

\* a filter that drops the entries and leaves the slice index as it was
filteredTable_keepsIndex(rf) ==
    LET keep == {e[2] : e \in {x \in sliceEntries(rf) : ~tooFrequent(rf, x[1], x[2])}}
    IN [rewriteSlices(rf, keep, 0, << >>, << >>) EXCEPT !.tabIndex = rf.tabIndex]

filteredTable(rf) ==
    LET drop == {e[2] : e \in {x \in sliceEntries(rf) : tooFrequent(rf, x[1], x[2])}}
        keep == (0..(Len(rf.kmerTable) - 1)) \ drop
        bl == {reproduceKmerSeq(rf, At(rf.kmerTable, i), At(rf.strandTable, i)) : i \in drop}
    IN [rewriteSlices(rf, keep, 0, << >>, << >>) EXCEPT
            !.filteredKmers = rf.filteredKmers \cup bl]

(***************************************************************************)
(* RefGenome::filterRedundancyInHashTable: of the entries of one slice     *)
(* that stand for the same k-mer sequence of the same meta CpG on the same *)
(* strand, keep the first.                                                 *)
(***************************************************************************)
redundant(rf, h, i) ==
    \E j \in At(rf.tabIndex, h)..(i - 1) :
        /\ getMetaCpG(At(rf.kmerTable, j)) = getMetaCpG(At(rf.kmerTable, i))
        /\ isStartCpG(At(rf.kmerTable, j)) = isStartCpG(At(rf.kmerTable, i))
        /\ At(rf.strandTable, j) = At(rf.strandTable, i)
        /\ reproduceKmerSeq(rf, At(rf.kmerTable, j), At(rf.strandTable, j))
             = reproduceKmerSeq(rf, At(rf.kmerTable, i), At(rf.strandTable, i))

nonRedundantTable(rf) ==
    LET keep == {e[2] : e \in {x \in sliceEntries(rf) : ~redundant(rf, x[1], x[2])}}
    IN rewriteSlices(rf, keep, 0, << >>, << >>)

(***************************************************************************)
(* Construction of the index, RefGenome::RefGenome(cpgTab, cpgStartTab,    *)
(* genSeq, ...), one action per step of the constructor.                   *)
(***************************************************************************)
newRefGenome(genSeq) ==
    [cpgTable |-> cpgCatalogue(genSeq, FALSE),
     cpgStartTable |-> cpgCatalogue(genSeq, TRUE),
     fullSeq |-> genSeq,
     genomeBit |-> << >>,
     tabIndex |-> << >>,
     kmerTable |-> << >>,
     strandTable |-> << >>,
     metaCpGs |-> << >>,
     metaStartCpGs |-> << >>,
     filteredKmers |-> {}]

InitIdx ==
    /\ \E seq \in [1..GenLen -> Bases] : ref = newRefGenome(<<seq>>)
    /\ phase = "ctor"
    /\ counts = noCounts
    /\ noMatch
    /\ noPool

generateMetaCpGs ==
    /\ phase = "ctor"
    /\ ref' = [ref EXCEPT !.metaCpGs = metaCpGsOf(ref.cpgTable),
                          !.metaStartCpGs = metaCpGsOf(ref.cpgStartTable)]
    /\ phase' = "metaCpGs"
    /\ UNCHANGED <<counts, matchVars, poolVars>>

generateBitStringsStep ==
    /\ phase = "metaCpGs"
    /\ ref' = [ref EXCEPT !.genomeBit = generateBitStrings(ref.fullSeq)]
    /\ phase' = "bitStrings"
    /\ UNCHANGED <<counts, matchVars, poolVars>>

estimateTablesizes ==
    /\ phase = "bitStrings"
    /\ ref' = tableSizes(ref)
    /\ phase' = "estimated"
    /\ UNCHANGED <<counts, matchVars, poolVars>>

generateHashes ==
    /\ phase = "estimated"
    /\ ref' = hashTable(ref)
    /\ phase' = "hashed"
    /\ UNCHANGED <<counts, matchVars, poolVars>>

filterHashTable ==
    /\ phase = "hashed"
    /\ ref' = filteredTable(ref)
    /\ phase' = "filtered"
    /\ UNCHANGED <<counts, matchVars, poolVars>>

filterRedundancyInHashTable ==
    /\ phase = "filtered"
    /\ ref' = nonRedundantTable(ref)
    /\ phase' = "built"
    /\ UNCHANGED <<counts, matchVars, poolVars>>

NextIdx ==
    \/ generateMetaCpGs
    \/ generateBitStringsStep
    \/ estimateTablesizes
    \/ generateHashes
    \/ filterHashTable
    \/ filterRedundancyInHashTable

SpecIdx == InitIdx /\ [][NextIdx]_vars

\* the index a finished construction leaves for a sequence
builtIndex(genSeq) ==
    LET r0 == newRefGenome(genSeq)
        r1 == [r0 EXCEPT !.metaCpGs = metaCpGsOf(r0.cpgTable),
                         !.metaStartCpGs = metaCpGsOf(r0.cpgStartTable),
                         !.genomeBit = generateBitStrings(genSeq)]
    IN nonRedundantTable(filteredTable(hashTable(tableSizes(r1))))

(***************************************************************************)
(* ReadQueue::filterHeuSeeds.                                              *)
(***************************************************************************)
\* ++threadCount[metaId]; an index outside the array changes no counter
countUp(threadCount, metaId) ==
    IF metaId < Len(threadCount)
    THEN [threadCount EXCEPT ![metaId + 1] = @ + 1]
    ELSE threadCount

\* the inner loop over the seeds of one offset, lastId the meta CpG counted last
RECURSIVE countList(_, _, _, _)
countList(threadCount, localK, j, lastId) ==
    IF j >= Len(localK) THEN threadCount
    ELSE LET metaId == getMetaCpG(At(localK, j))
         IN IF metaId = lastId
            THEN countList(threadCount, localK, j + 1, lastId)
            ELSE countList(countUp(threadCount, metaId), localK, j + 1, metaId)

\* the outer loop over the offsets; lastId starts as 0xffffffffffffffff
RECURSIVE countOffsets(_, _, _)
countOffsets(threadCount, K, i) ==
    IF i >= Len(K) THEN threadCount
    ELSE countOffsets(countList(threadCount, At(K, i), 0, -1), K, i + 1)

\* a clearing that keeps what the array held: threadCount.resize(size, 0)
assignCount_resize(threadCount, size) ==
    [m \in 1..size |-> IF m <= Len(threadCount) THEN threadCount[m] ELSE 0]

\* threadCount.assign(ref.metaCpGs.size(), 0)
assignCount(threadCount, size) == [m \in 1..size |-> 0]

\* the counters after the counting loop
countSeeds(threadCount, K, size) == countOffsets(assignCount(threadCount, size), K, 0)

\* readSize - KMERLEN + 1 - (KMERLEN * MISCOUNT) in unsigned int
countCut(readSize) == readSize - KMERLEN + 1 - (KMERLEN * MISCOUNT)

\* the test of one seed: threadCount[getMetaCpG(seed)] >= countCut
passesCut(threadCount, k, cut) ==
    /\ getMetaCpG(k) < Len(threadCount)
    /\ UGe(At(threadCount, getMetaCpG(k)), cut)

\* the indices of the seeds of one offset that are pushed to the filtered lists
RECURSIVE keptSeeds(_, _, _, _)
keptSeeds(threadCount, localK, cut, j) ==
    IF j >= Len(localK) THEN << >>
    ELSE (IF passesCut(threadCount, At(localK, j), cut) THEN <<j>> ELSE << >>)
         \o keptSeeds(threadCount, localK, cut, j + 1)

filteredSeedsK(threadCount, localK, cut) ==
    LET js == keptSeeds(threadCount, localK, cut, 0)
    IN [n \in 1..Len(js) |-> At(localK, js[n])]

\* a filter that takes the flags from the front of the old list
filteredSeedsS_frontFlags(threadCount, localK, localS, cut) ==
    LET js == keptSeeds(threadCount, localK, cut, 0)
    IN [n \in 1..Len(js) |-> localS[n]]

filteredSeedsS(threadCount, localK, localS, cut) ==
    LET js == keptSeeds(threadCount, localK, cut, 0)
    IN [n \in 1..Len(js) |-> At(localS, js[n])]

\* some seed makes threadCount[metaId] an access outside the counter array
countFault(K, size) ==
    \E i \in 1..Len(K) : \E j \in 1..Len(K[i]) : getMetaCpG(K[i][j]) >= size

\* the second loop: the lists of every offset rebuilt from the kept seeds
prunedK(threadCount, K, readSize) ==
    [i \in 1..Len(K) |-> filteredSeedsK(threadCount, K[i], countCut(readSize))]

prunedS(threadCount, K, S, readSize) ==
    [i \in 1..Len(K) |-> filteredSeedsS(threadCount, K[i], S[i], countCut(readSize))]

\* the whole call for the seed lists K, S of a read of readSize bases, by a
\* thread whose counter array holds old
heuSeeds(old, K, S, readSize, size) ==
    LET threadCount == countSeeds(old, K, size)
    IN [K |-> prunedK(threadCount, K, readSize),
        S |-> prunedS(threadCount, K, S, readSize),
        threadCount |-> threadCount,
        fault |-> countFault(K, size)]

(***************************************************************************)
(* The reference bits of a seed (bitMatching, bitMatchingRev): meta CpG    *)
(* table, CpG table, packed genome, strand.                                *)
(***************************************************************************)
seedRefBits(rf, refKmer, sFlag) ==
    LET cpgInd == IF isStartCpG(refKmer)
                  THEN At(rf.metaStartCpGs, getMetaCpG(refKmer)).start
                  ELSE At(rf.metaCpGs, getMetaCpG(refKmer)).start
        chrom == IF isStartCpG(refKmer) THEN At(rf.cpgStartTable, cpgInd).chrom
                 ELSE At(rf.cpgTable, cpgInd).chrom
        pos == IF isStartCpG(refKmer) THEN 0 ELSE At(rf.cpgTable, cpgInd).pos
    IN IF sFlag THEN getSeqKmer(At(rf.genomeBit, chrom), pos + getOffset(refKmer))
       ELSE getSeqKmerRev(At(rf.genomeBit, chrom), pos + getOffset(refKmer))

\* a comparison that leaves out the base shifted in last
seedMatches_withoutLastBase(rf, refKmer, sFlag, kmerBits) ==
    seedRefBits(rf, refKmer, sFlag) \div 4 = kmerBits \div 4

\* !( refKmerBit ^ (kmerBits & BitFun::getMask(refKmerBit)) )
seedMatches(rf, refKmer, sFlag, kmerBits) ==
    LET refKmerBit == seedRefBits(rf, refKmer, sFlag)
    IN BitXor(refKmerBit, BitAnd(kmerBits, getMask(refKmerBit))) = 0

RECURSIVE matchedSeeds(_, _, _, _, _)
matchedSeeds(rf, localK, localS, kmerBits, i) ==
    IF i >= Len(localK) THEN << >>
    ELSE (IF seedMatches(rf, At(localK, i), At(localS, i), kmerBits) THEN <<i>> ELSE << >>)
         \o matchedSeeds(rf, localK, localS, kmerBits, i + 1)

newSeedsK(rf, localK, localS, kmerBits) ==
    LET is == matchedSeeds(rf, localK, localS, kmerBits, 0)
    IN [n \in 1..Len(is) |-> At(localK, is[n])]

newSeedsS(rf, localK, localS, kmerBits) ==
    LET is == matchedSeeds(rf, localK, localS, kmerBits, 0)
    IN [n \in 1..Len(is) |-> At(localS, is[n])]

\* kmerBits = ((kmerBits << 2) | code) & signiBits
shiftIn(kmerBits, code) == (kmerBits * 4 + code) % (signiBits + 1)

\* r.seq[i]: the base, the terminator at i = size(), nothing beyond
inString(seq, i) == 0 <= i /\ i <= Len(seq)
charAt(seq, i) == IF i < Len(seq) THEN At(seq, i) ELSE "\\0"

(***************************************************************************)
(* ReadQueue::bitMatching.                                                 *)
(***************************************************************************)
\* the first KMERLEN - 1 letters of the read
RECURSIVE firstLetters(_, _, _)
firstLetters(seq, i, kmerBits) ==
    IF i >= KMERLEN - 1 THEN [kmerBits |-> kmerBits, fault |-> FALSE]
    ELSE IF ~inString(seq, i) THEN [kmerBits |-> kmerBits, fault |-> TRUE]
    ELSE firstLetters(seq, i + 1, kmerBits * 4 + getBitRepr(charAt(seq, i)))

\* the loop over the offsets, offset < r.seq.size() - KMERLEN + 1 in size_t
RECURSIVE matchOffsets(_, _, _, _, _, _, _, _)
matchOffsets(rf, seq, K, S, offset, kmerBits, newK, newS) ==
    IF ~ULt(offset, Len(seq) - KMERLEN + 1)
    THEN [K |-> newK, S |-> newS, fault |-> FALSE]
    ELSE IF offset >= Len(K) \/ ~inString(seq, offset + KMERLEN - 1)
    THEN [K |-> newK, S |-> newS, fault |-> TRUE]
    ELSE LET bits == shiftIn(kmerBits, getBitRepr(charAt(seq, offset + KMERLEN - 1)))
         IN matchOffsets(rf, seq, K, S, offset + 1, bits,
                [newK EXCEPT ![offset + 1] = newSeedsK(rf, At(K, offset), At(S, offset), bits)],
                [newS EXCEPT ![offset + 1] = newSeedsS(rf, At(K, offset), At(S, offset), bits)])

bitMatch(rf, seq, K, S) ==
    LET first == firstLetters(seq, 0, 0)
        empty == [i \in 1..Len(K) |-> << >>]
    IN IF first.fault THEN [K |-> empty, S |-> empty, fault |-> TRUE]
       ELSE matchOffsets(rf, seq, K, S, 0, first.kmerBits, empty, empty)

(***************************************************************************)
(* ReadQueue::bitMatchingRev.                                              *)
(***************************************************************************)
\* i = readSize - 1; i > readSize - KMERLEN; --i, in unsigned int
RECURSIVE lastLetters(_, _, _)
lastLetters(seq, i, kmerBits) ==
    IF ~ULt(Len(seq) - KMERLEN, i) THEN [kmerBits |-> kmerBits, fault |-> FALSE]
    ELSE IF ~inString(seq, i) THEN [kmerBits |-> kmerBits, fault |-> TRUE]
    ELSE lastLetters(seq, i - 1, kmerBits * 4 + getBitReprRev(charAt(seq, i)))

\* offset = readSize - KMERLEN; offset > 0; --offset, ++kmerInd
RECURSIVE matchOffsetsRev(_, _, _, _, _, _, _, _, _)
matchOffsetsRev(rf, seq, K, S, offset, kmerInd, kmerBits, newK, newS) ==
    IF ~ULt(0, offset)
    THEN [K |-> newK, S |-> newS, fault |-> FALSE]
    ELSE IF kmerInd >= Len(K) \/ ~inString(seq, offset - 1)
    THEN [K |-> newK, S |-> newS, fault |-> TRUE]
    ELSE LET bits == shiftIn(kmerBits, getBitReprRev(charAt(seq, offset - 1)))
         IN matchOffsetsRev(rf, seq, K, S, offset - 1, kmerInd + 1, bits,
                [newK EXCEPT ![kmerInd + 1] = newSeedsK(rf, At(K, kmerInd), At(S, kmerInd), bits)],
                [newS EXCEPT ![kmerInd + 1] = newSeedsS(rf, At(K, kmerInd), At(S, kmerInd), bits)])

bitMatchRev(rf, seq, K, S) ==
    LET first == lastLetters(seq, Len(seq) - 1, 0)
        empty == [i \in 1..Len(K) |-> << >>]
    IN IF first.fault THEN [K |-> empty, S |-> empty, fault |-> TRUE]
       ELSE matchOffsetsRev(rf, seq, K, S, Len(seq) - KMERLEN, 0, first.kmerBits, empty, empty)

(***************************************************************************)
(* Seeding (getSeeds): the seed list of offset i is the slice of the hash  *)
(* table for the hash of the i-th k-mer of the sequence.                   *)
(***************************************************************************)
seqCodes(seq) == [i \in 1..Len(seq) |-> getBitRepr(seq[i])]
revComp(seq) ==
    [i \in 1..Len(seq) |->
        CASE seq[Len(seq) + 1 - i] = "A" -> "T"
          [] seq[Len(seq) + 1 - i] = "C" -> "G"
          [] seq[Len(seq) + 1 - i] = "G" -> "C"
          [] OTHER -> "A"]

seedSlice(rf, table, codes, i) ==
    LET h == ntHash(fwdCodes(codes, i))
    IN [n \in 1..(At(rf.tabIndex, h + 1) - At(rf.tabIndex, h)) |->
           At(table, At(rf.tabIndex, h) + n - 1)]

getSeedsK(rf, seq) ==
    [i \in 1..Max(Len(seq) - KMERLEN + 1, 0) |-> seedSlice(rf, rf.kmerTable, seqCodes(seq), i - 1)]

getSeedsS(rf, seq) ==
    [i \in 1..Max(Len(seq) - KMERLEN + 1, 0) |-> seedSlice(rf, rf.strandTable, seqCodes(seq), i - 1)]

(***************************************************************************)
(* The matching steps on one read, called from one thread (thread 0).      *)
(* Inputs: a read over the four bases with the seeds the index gives for   *)
(* it or for its reverse complement, or a read cut from the reference with *)
(* seed lists drawn from SeedLists.                                        *)
(***************************************************************************)
RefSeq == <<"C", "G", "A", "A", "C", "G", "T", "T", "T", "A", "C", "G">>
Ref0 == builtIndex(<<RefSeq>>)

seedA == [k |-> constructKmer(FALSE, 0, 0), s |-> TRUE]
seedA2 == [k |-> constructKmer(FALSE, 0, 1), s |-> FALSE]
seedB == [k |-> constructKmer(FALSE, 1, 0), s |-> TRUE]
seedSt == [k |-> constructKmer(TRUE, 0, 1), s |-> TRUE]

SeedLists ==
    { << >>, <<seedA>>, <<seedSt>>, <<seedA, seedA2>>, <<seedB, seedA>>,
      <<seedA, seedB, seedA2>> }

listK(l) == [n \in 1..Len(l) |-> l[n].k]
listS(l) == [n \in 1..Len(l) |-> l[n].s]

numOffsets(L) == Max(L - KMERLEN + 1, 0)

InitMatch ==
    /\ ref = Ref0
    /\ phase = "built"
    /\ counts = noCounts
    /\ \E L \in 0..MaxReadLen :
          \/ \E ls \in [1..numOffsets(L) -> SeedLists] :
                /\ r = SubSeq(RefSeq, 3, 2 + L)
                /\ seedsK = [i \in 1..numOffsets(L) |-> listK(ls[i])]
                /\ seedsS = [i \in 1..numOffsets(L) |-> listS(ls[i])]
          \/ \E seq \in [1..L -> Bases] : \E rev \in BOOLEAN :
                /\ r = seq
                /\ seedsK = getSeedsK(Ref0, IF rev THEN revComp(seq) ELSE seq)
                /\ seedsS = getSeedsS(Ref0, IF rev THEN revComp(seq) ELSE seq)
    /\ lastOp = "none" /\ preK = << >> /\ preS = << >>
    /\ fault = FALSE /\ aborted = FALSE
    /\ noPool

\* a step that indexed outside an object either ends the process or returns
\* with what it had written so far
stepDone(op, res) ==
    /\ \E terminated \in BOOLEAN :
          /\ terminated => res.fault
          /\ aborted' = terminated
          /\ seedsK' = IF terminated THEN seedsK ELSE res.K
          /\ seedsS' = IF terminated THEN seedsS ELSE res.S
    /\ fault' = res.fault
    /\ lastOp' = op
    /\ preK' = seedsK
    /\ preS' = seedsS
    /\ UNCHANGED r

filterHeuSeeds ==
    /\ ~aborted
    /\ LET res == heuSeeds(counts[0], seedsK, seedsS, Len(r), Len(ref.metaCpGs))
       IN /\ stepDone("filterHeuSeeds", res)
          /\ counts' = [counts EXCEPT ![0] = res.threadCount]
    /\ UNCHANGED <<idxVars, poolVars>>

bitMatching ==
    /\ ~aborted
    /\ stepDone("bitMatching", bitMatch(ref, r, seedsK, seedsS))
    /\ UNCHANGED <<idxVars, counts, poolVars>>

\* a scan that writes through its reference into the meta CpG table
bitMatchingRev_writesMeta ==
    /\ ~aborted
    /\ stepDone("bitMatchingRev", bitMatchRev(ref, r, seedsK, seedsS))
    /\ ref' = [ref EXCEPT !.metaCpGs = [m \in 1..Len(@) |-> [@[m] EXCEPT !.start = 0]]]
    /\ UNCHANGED <<phase, counts, poolVars>>

bitMatchingRev ==
    /\ ~aborted
    /\ stepDone("bitMatchingRev", bitMatchRev(ref, r, seedsK, seedsS))
    /\ UNCHANGED <<idxVars, counts, poolVars>>

Next ==
    \/ filterHeuSeeds
    \/ bitMatching
    \/ bitMatchingRev

Spec == InitMatch /\ [][Next]_vars

(***************************************************************************)
(* The parallel read loop: a batch of reads, one read per iteration, the   *)
(* iterations handed to the threads of the pool in any order.  A thread    *)
(* runs one read through both orientations: seeds, filterHeuSeeds (its     *)
(* three parts are separate steps, since they work on the member counts),  *)
(* then bitMatching or bitMatchingRev on the thread's own lists.           *)
(***************************************************************************)
BatchSize == 2

PoolReads ==
    { <<"A">>,
      <<"A", "A", "C">>,
      <<"T", "T", "A", "C">>,
      <<"C", "G", "T", "T", "T">> }

Threads == 0..(numThreads - 1)

\* the counter array a thread works on: counts[omp_get_thread_num()]
countIndex_shared(t) == 0

countIndex(t) == t

idle == [pc |-> "idle", read |-> 0, rev |-> FALSE, K |-> << >>, S |-> << >>]

noResult == [done |-> FALSE, fwdK |-> << >>, fwdS |-> << >>, revK |-> << >>, revS |-> << >>]

\* the sequence an orientation is seeded and verified with
orientSeq(seq, rev) == IF rev THEN revComp(seq) ELSE seq

\* the seeds a thread starts an orientation of read i with
startOrient(i, rev) ==
    [pc |-> "assign", read |-> i, rev |-> rev,
     K |-> getSeedsK(ref, orientSeq(readBuffer[i], rev)),
     S |-> getSeedsS(ref, orientSeq(readBuffer[i], rev))]

InitPool ==
    /\ ref = Ref0
    /\ phase = "built"
    /\ counts = noCounts
    /\ noMatch
    /\ readBuffer \in [1..BatchSize -> PoolReads]
    /\ numThreads \in {1, CORENUM}
    /\ taken = {}
    /\ worker = [t \in 0..(CORENUM - 1) |-> idle]
    /\ results = [i \in 1..BatchSize |-> noResult]
    /\ touched = [c \in 0..(CORENUM - 1) |-> {}]

touch(t) == touched' = [touched EXCEPT ![countIndex(t)] = @ \cup {t}]

\* a thread takes an iteration of the loop; a read shorter than a k-mer is
\* given the empty result without entering the matching steps
takeRead(t) ==
    /\ worker[t].pc = "idle"
    /\ \E i \in (1..BatchSize) \ taken :
          /\ taken' = taken \cup {i}
          /\ IF Len(readBuffer[i]) < KMERLEN
             THEN /\ results' = [results EXCEPT ![i].done = TRUE]
                  /\ UNCHANGED worker
             ELSE /\ worker' = [worker EXCEPT ![t] = startOrient(i, FALSE)]
                  /\ UNCHANGED results
    /\ UNCHANGED <<idxVars, counts, matchVars, readBuffer, numThreads, touched>>

\* filterHeuSeeds, first part: the counter array of the thread is reset
assignCounts(t) ==
    /\ worker[t].pc = "assign"
    /\ counts' = [counts EXCEPT ![countIndex(t)] = assignCount(@, Len(ref.metaCpGs))]
    /\ touch(t)
    /\ worker' = [worker EXCEPT ![t].pc = "count"]
    /\ UNCHANGED <<idxVars, matchVars, readBuffer, numThreads, taken, results>>

\* filterHeuSeeds, second part: the counting loop over the seed lists
countSeedsStep(t) ==
    /\ worker[t].pc = "count"
    /\ counts' = [counts EXCEPT ![countIndex(t)] = countOffsets(@, worker[t].K, 0)]
    /\ touch(t)
    /\ worker' = [worker EXCEPT ![t].pc = "prune"]
    /\ UNCHANGED <<idxVars, matchVars, readBuffer, numThreads, taken, results>>

\* filterHeuSeeds, third part: the lists rebuilt from the seeds over the cut
pruneSeeds(t) ==
    /\ worker[t].pc = "prune"
    /\ LET threadCount == counts[countIndex(t)]
           w == worker[t]
           L == Len(readBuffer[w.read])
       IN worker' = [worker EXCEPT ![t].K = prunedK(threadCount, w.K, L),
                                   ![t].S = prunedS(threadCount, w.K, w.S, L),
                                   ![t].pc = "verify"]
    /\ touch(t)
    /\ UNCHANGED <<idxVars, counts, matchVars, readBuffer, numThreads, taken, results>>

\* bitMatching on the forward orientation, then the reverse one is started
verifyFwd(t) ==
    /\ worker[t].pc = "verify"
    /\ ~worker[t].rev
    /\ LET w == worker[t]
           res == bitMatch(ref, readBuffer[w.read], w.K, w.S)
       IN /\ results' = [results EXCEPT ![w.read].fwdK = res.K, ![w.read].fwdS = res.S]
          /\ worker' = [worker EXCEPT ![t] = startOrient(w.read, TRUE)]
    /\ UNCHANGED <<idxVars, counts, matchVars, readBuffer, numThreads, taken, touched>>

\* bitMatchingRev on the reverse orientation ends the iteration
verifyRev(t) ==
    /\ worker[t].pc = "verify"
    /\ worker[t].rev
    /\ LET w == worker[t]
           res == bitMatchRev(ref, readBuffer[w.read], w.K, w.S)
       IN results' = [results EXCEPT ![w.read].revK = res.K, ![w.read].revS = res.S,
                                     ![w.read].done = TRUE]
    /\ worker' = [worker EXCEPT ![t] = idle]
    /\ UNCHANGED <<idxVars, counts, matchVars, readBuffer, numThreads, taken, touched>>

NextPool ==
    \E t \in Threads :
        \/ takeRead(t)
        \/ assignCounts(t)
        \/ countSeedsStep(t)
        \/ pruneSeeds(t)
        \/ verifyFwd(t)
        \/ verifyRev(t)

SpecPool == InitPool /\ [][NextPool]_vars

(***************************************************************************)
(* Properties of the matching steps.                                       *)
(***************************************************************************)
Offsets == 1..Len(preK)

\* the counter filterHeuSeeds keeps for the meta CpG of seed k
tallyOf(k) == At(counts[0], getMetaCpG(k))

\* the position in the reference a seed stands for
seedPos(rf, k) ==
    IF isStartCpG(k) THEN getOffset(k)
    ELSE At(rf.cpgTable, At(rf.metaCpGs, getMetaCpG(k)).start).pos + getOffset(k)

\* the pairs (Kmer encoding, strand flag) of one offset
pairs(K, S, i) == [n \in 1..Len(K[i]) |-> <<K[i][n], S[i][n]>>]

RECURSIVE IsSubSeq(_, _)
IsSubSeq(a, b) ==
    IF a = << >> THEN TRUE
    ELSE IF b = << >> THEN FALSE
    ELSE IF Head(a) = Head(b) THEN IsSubSeq(Tail(a), Tail(b))
    ELSE IsSubSeq(a, Tail(b))

\* C1: after filterHeuSeeds on a read of L >= KMERLEN bases a seed is kept
\* iff the tally of its meta CpG is >= L - KMERLEN + 1 - KMERLEN * MISCOUNT,
\* the bound taken as a mathematical integer.
C1_HeuristicBound ==
    (lastOp = "filterHeuSeeds" /\ Len(r) >= KMERLEN /\ ~fault) =>
        \A i \in Offsets :
            seedsK[i] = SelectSeq(preK[i],
                LAMBDA k : tallyOf(k) >= Len(r) - KMERLEN + 1 - KMERLEN * MISCOUNT)

\* x is y after bisulfite treatment: some C of y reads T in x
IsConverted(x, y) ==
    /\ Len(x) = Len(y)
    /\ \A i \in 1..Len(x) : x[i] = y[i] \/ (y[i] = "C" /\ x[i] = "T")

RefPositions(L) == 0..(Len(RefSeq) - L)
RefSub(p, L) == SubSeq(RefSeq, p + 1, p + L)

\* list i holds, on the forward strand, the seed of reference position q
HasSeedAt(K, S, i, q) ==
    \E n \in 1..Len(K[i]) : S[i][n] /\ seedPos(ref, K[i][n]) = q

\* the seed of position p + i - 1 is in list i before the step, for every offset
SeededAt(p) ==
    /\ Len(preK) = Len(r) - KMERLEN + 1
    /\ \A i \in Offsets : HasSeedAt(preK, preS, i, p + i - 1)

KeptAt(p) == \A i \in Offsets : HasSeedAt(seedsK, seedsS, i, p + i - 1)

\* C2: a read that is the reference at position p up to bisulfite conversion
\* keeps the seed of that position at every offset through filterHeuSeeds and
\* bitMatching; the reverse complement of such a stretch keeps it through
\* filterHeuSeeds and bitMatchingRev.
C2_ConvertedReadKeepsSeed ==
    \A p \in RefPositions(Len(r)) :
        (Len(r) >= KMERLEN /\ SeededAt(p)) =>
            /\ (IsConverted(r, RefSub(p, Len(r)))
                  /\ lastOp \in {"filterHeuSeeds", "bitMatching"}) => KeptAt(p)
            /\ (IsConverted(r, revComp(RefSub(p, Len(r))))
                  /\ lastOp \in {"filterHeuSeeds", "bitMatchingRev"}) => KeptAt(p)

\* C3: on a read shorter than KMERLEN every matching step ends with all seed
\* lists empty, without an access outside the read or the seed lists and
\* without ending the process.
C3_ShortReadEmpty ==
    (Len(r) < KMERLEN /\ lastOp # "none") =>
        /\ ~fault
        /\ ~aborted
        /\ \A i \in 1..Len(seedsK) : seedsK[i] = << >> /\ seedsS[i] = << >>

\* C6: if the two lists of every offset had equal length before a matching
\* step, they have equal length after it, and the pairs (Kmer encoding,
\* strand flag) that are kept are pairs of before, in their order.
C6_ParallelLists ==
    (lastOp # "none" /\ \A i \in Offsets : Len(preK[i]) = Len(preS[i])) =>
        /\ Len(seedsK) = Len(preK)
        /\ Len(seedsS) = Len(preK)
        /\ \A i \in Offsets :
              /\ Len(seedsK[i]) = Len(seedsS[i])
              /\ IsSubSeq(pairs(seedsK, seedsS, i), pairs(preK, preS, i))

C6_Witness ==
    /\ lastOp = "filterHeuSeeds"
    /\ ~fault
    /\ \E i \in Offsets :
          /\ Len(seedsK[i]) = 2
          /\ Len(preK[i]) = 3
          /\ seedsS[i][1] # seedsS[i][2]

\* C7: a matching step changes neither the index, the packed genome, the CpG
\* tables nor the meta CpG tables, nor the read, nor the counters of another
\* thread.
C7_IndexReadOnly ==
    [][/\ ref' = ref
       /\ r' = r
       /\ \A t \in 1..(CORENUM - 1) : counts'[t] = counts[t]]_vars

C7_Witness ==
    /\ lastOp = "bitMatchingRev"
    /\ ~fault
    /\ seedsK # preK
    /\ \E i \in Offsets : seedsK[i] # << >>
    /\ ref = Ref0

\* the offsets before the step whose list holds a seed of the meta CpG of k
offsetsOf(k) ==
    {i \in Offsets : \E n \in 1..Len(preK[i]) :
        /\ getMetaCpG(preK[i][n]) = getMetaCpG(k)
        /\ isStartCpG(preK[i][n]) = isStartCpG(k)}

\* C9: after filterHeuSeeds the tally of the meta CpG of every seed is the
\* number of offsets whose list held a seed of that meta CpG.
C9_DistinctOffsetTally ==
    (lastOp = "filterHeuSeeds" /\ ~fault) =>
        \A i \in Offsets : \A n \in 1..Len(preK[i]) :
            tallyOf(preK[i][n]) = Cardinality(offsetsOf(preK[i][n]))

\* C10: on a read of L >= KMERLEN bases with L - KMERLEN + 1 seed lists,
\* bitMatchingRev leaves what bitMatching leaves on the reverse complement of
\* the read.
C10_RevIsMatchingOfRevComp ==
    (lastOp = "bitMatchingRev" /\ Len(r) >= KMERLEN
        /\ Len(preK) = Len(r) - KMERLEN + 1) =>
        /\ ~fault
        /\ seedsK = bitMatch(ref, revComp(r), preK, preS).K
        /\ seedsS = bitMatch(ref, revComp(r), preK, preS).S

(***************************************************************************)
(* Properties of the parallel read loop.                                   *)
(***************************************************************************)
\* what a read gives when it is matched alone, by a thread with a new
\* counter array
aloneHeu(seq, rev) ==
    heuSeeds(<< >>, getSeedsK(ref, orientSeq(seq, rev)), getSeedsS(ref, orientSeq(seq, rev)),
             Len(seq), Len(ref.metaCpGs))

aloneResult(seq) ==
    IF Len(seq) < KMERLEN THEN [noResult EXCEPT !.done = TRUE]
    ELSE LET f == bitMatch(ref, seq, aloneHeu(seq, FALSE).K, aloneHeu(seq, FALSE).S)
             b == bitMatchRev(ref, seq, aloneHeu(seq, TRUE).K, aloneHeu(seq, TRUE).S)
         IN [done |-> TRUE, fwdK |-> f.K, fwdS |-> f.S, revK |-> b.K, revS |-> b.S]

\* C4: whatever the pool size, the assignment of reads to threads and the
\* interleaving, the seed lists a thread holds after pruning and the lists
\* stored for a finished read are those the read gives when matched alone
\* by a pool of one thread, independent of the reads matched before it.
C4_PoolDeterminism ==
    /\ \A i \in DOMAIN results :
          results[i].done => results[i] = aloneResult(readBuffer[i])
    /\ \A t \in DOMAIN worker :
          worker[t].pc = "verify" =>
              /\ worker[t].K = aloneHeu(readBuffer[worker[t].read], worker[t].rev).K
              /\ worker[t].S = aloneHeu(readBuffer[worker[t].read], worker[t].rev).S

\* two threads have each matched a read of a batch of different reads, and
\* pruning has left seeds for the verification
C4_Witness ==
    /\ numThreads = CORENUM
    /\ \A i \in DOMAIN results : results[i].done
    /\ \A c \in 0..(CORENUM - 1) : touched[c] # {}
    /\ \E i, j \in DOMAIN readBuffer : readBuffer[i] # readBuffer[j]
    /\ \E i \in DOMAIN results : \E n \in DOMAIN results[i].fwdK : results[i].fwdK[n] # << >>

\* C5: every thread of the pool selects an existing counter array, no
\* counter array has been accessed by two different threads, and a thread
\* in the pruning part of filterHeuSeeds finds in its array the tallies of
\* its own read only.
C5_ScratchIsolation ==
    /\ \A t \in Threads : countIndex(t) \in DOMAIN counts
    /\ \A c \in DOMAIN touched : Cardinality(touched[c]) <= 1
    /\ \A t \in Threads :
          worker[t].pc = "prune" =>
              counts[countIndex(t)] = countSeeds(<< >>, worker[t].K, Len(ref.metaCpGs))

\* two threads are inside filterHeuSeeds at the same time, each with tallies
\* in its counter array
C5_Witness ==
    /\ numThreads = CORENUM
    /\ \A t \in Threads : worker[t].pc = "prune"
    /\ \A t \in Threads : \E m \in DOMAIN counts[t] : counts[t][m] > 0
    /\ counts[0] # counts[1]

(***************************************************************************)
(* Properties of the index.                                                *)
(***************************************************************************)
codesOf(bits) == [j \in 1..KMERLEN |-> (bits \div Pow(4, KMERLEN - j)) % 4]

\* the hash value of the k-mer that entry i of the table stands for
entryHash(rf, i) ==
    ntHash(codesOf(reproduceKmerSeq(rf, At(rf.kmerTable, i), At(rf.strandTable, i))))

\* C8: once the table is built, and after filterHashTable and after
\* filterRedundancyInHashTable, tabIndex has HTABSIZE + 1 elements, does not
\* decrease, starts at 0 and ends at the length of kmerTable, strandTable is
\* as long as kmerTable, and the entries of the slice tabIndex[h] ..
\* tabIndex[h+1]-1 are k-mers of hash value h.
C8_IndexShape ==
    phase \in {"hashed", "filtered", "built"} =>
        /\ Len(ref.tabIndex) = HTABSIZE + 1
        /\ \A h \in 0..(HTABSIZE - 1) : At(ref.tabIndex, h) <= At(ref.tabIndex, h + 1)
        /\ At(ref.tabIndex, 0) = 0
        /\ At(ref.tabIndex, HTABSIZE) = Len(ref.kmerTable)
        /\ Len(ref.strandTable) = Len(ref.kmerTable)
        /\ \A h \in 0..(HTABSIZE - 1) :
              \A i \in At(ref.tabIndex, h)..(At(ref.tabIndex, h + 1) - 1) :
                  entryHash(ref, i) = h

\* an index after both filters: k-mers were blacklisted, entries are left,
\* one slice is empty and another holds several entries
C8_Witness ==
    /\ phase = "built"
    /\ ref.filteredKmers # {}
    /\ Len(ref.kmerTable) > 0
    /\ Len(ref.kmerTable) < Len(allKmers(ref))
    /\ \E h \in 0..(HTABSIZE - 1) : At(ref.tabIndex, h) = At(ref.tabIndex, h + 1)
    /\ \E h \in 0..(HTABSIZE - 1) : At(ref.tabIndex, h) + 1 < At(ref.tabIndex, h + 1)

(***************************************************************************)
(* Properties of bitMatching.                                              *)
(***************************************************************************)
\* the codes of the read bases i-1 .. i+KMERLEN-2, the k-mer of offset list i
readKmer(i) == [j \in 1..KMERLEN |-> getBitRepr(r[i + j - 1])]

\* the codes of the reference k-mer seed n of list i stood for before the step
refKmerOf(i, n) == codesOf(seedRefBits(ref, preK[i][n], preS[i][n]))

\* the places in list i, in their order, of the seeds equal to the read k-mer
equalSeeds(i) ==
    SelectSeq([n \in 1..Len(preK[i]) |-> n], LAMBDA n : refKmerOf(i, n) = readKmer(i))

filteredAgain == heuSeeds(counts[0], seedsK, seedsS, Len(r), Len(ref.metaCpGs))

\* C12: after filterHeuSeeds, a second filterHeuSeeds on the lists it left
\* leaves them as they are: no further seed is removed.
C12_HeuSeedsIdempotent ==
    (lastOp = "filterHeuSeeds" /\ ~fault) =>
        /\ filteredAgain.K = seedsK
        /\ filteredAgain.S = seedsS

(***************************************************************************)
(* Properties of the counters of filterHeuSeeds.                           *)
(***************************************************************************)
\* the places (list, index) of the seeds the step was called with
seedPlaces == UNION {{<<i, n>> : n \in 1..Len(preK[i])} : i \in Offsets}

\* the seeds of ordinary meta CpG m among them
ordinarySeedsOf(m) ==
    {p \in seedPlaces : ~isStartCpG(preK[p[1]][p[2]]) /\ getMetaCpG(preK[p[1]][p[2]]) = m}

\* C13: in filterHeuSeeds every seed's counter index lies inside the counter
\* array, and the counter of an ordinary meta CpG is raised by seeds of that
\* ordinary meta CpG only, never by a seed of a start meta CpG with the same
\* index: it is at most the number of those seeds.
C13_StartTalliedApart ==
    lastOp = "filterHeuSeeds" =>
        /\ ~fault
        /\ \A p \in seedPlaces : getMetaCpG(preK[p[1]][p[2]]) < Len(counts[0])
        /\ \A m \in 0..(Len(counts[0]) - 1) :
              At(counts[0], m) <= Cardinality(ordinarySeedsOf(m))

====
